---- MODULE Spec2Model ----
(***************************************************************************)
(* DataDrift (src/main.py): the SCPClientApp window and the SSH/SFTP/SCP   *)
(* handles it keeps, driven by toolbar actions and double-clicks.          *)
(*                                                                         *)
(* The program state is the fields of SCPClientApp (ssh, sftp, scp,        *)
(* remote_path, the remote model's rows, the tree selection, the editor    *)
(* text); the environment is the set of SSH connections that were opened   *)
(* and not closed, the ones whose network has dropped, and the remote      *)
(* file system.  Every toolbar action runs asyncio.run(handler) on the GUI *)
(* thread; handlers are split at their await points (the calls handed to   *)
(* asyncio.to_thread), and clicks made while a handler runs wait in the    *)
(* GUI event queue.                                                        *)
(***************************************************************************)
EXTENDS Integers, Sequences, FiniteSets, TLC

\* ---------------------------------------------------------------- bounds
\* SSHClient objects the run may create (connect attempts).
MaxConn == 2
\* Toolbar clicks that may wait in the GUI event queue while a handler runs.
MaxQueue == 1

\* ------------------------------------------------------ values and helpers
\* Python's None for the ssh / sftp / scp fields; SSHClient objects are
\* numbered from 1.
None == 0
\* selectedIndexes() is empty.
NoSel == "none"

Names == {"d", "f", "s"}

\* st_mode values (type bits and permissions).
S_IFDIR == 16384
ModeDir == 16877
ModeReg == 33188
ModeBlk == 25008

Absent == [mode |-> 0, content |-> <<>>]

\* Texts typed into the editor, as code points: "", "a" and "e-acute".
Texts == {<<>>, <<97>>, <<233>>}

RECURSIVE encode(_)
\* str.encode(): UTF-8.
encode(t) ==
  IF t = <<>> THEN <<>>
  ELSE (IF Head(t) < 128 THEN <<Head(t)>>
        ELSE <<192 + (Head(t) \div 64), 128 + (Head(t) % 64)>>) \o encode(Tail(t))

RECURSIVE decode(_)
\* bytes.decode(): UTF-8; <<-1>> stands for UnicodeDecodeError.
decode(b) ==
  IF b = <<>> THEN <<>>
  ELSE IF Head(b) < 128
       THEN (LET r == decode(Tail(b)) IN IF r = <<-1>> THEN r ELSE <<Head(b)>> \o r)
  ELSE IF Head(b) >= 192 /\ Head(b) < 224 /\ Len(b) >= 2
          /\ b[2] >= 128 /\ b[2] < 192
       THEN (LET r == decode(Tail(Tail(b)))
             IN IF r = <<-1>> THEN r
                ELSE <<(Head(b) - 192) * 64 + (b[2] - 128)>> \o r)
  ELSE <<-1>>

\* os.path.join(self.remote_path, name); "." is the empty sequence.
join(path, name) == Append(path, name)

\* QFileSystemModel rows of the local tree that can be selected for upload.
LocalFile(n) == [mode |-> ModeReg, content |-> <<195, 169>>]
LocalNames == {"f"}

\* The remote file system at start: ./d/ (a directory), ./f and ./d/f (regular
\* files, ./d/f an empty one), ./s (a block device node).
InitFs == (<<"d">> :> [mode |-> ModeDir, content |-> <<>>])
       @@ (<<"f">> :> [mode |-> ModeReg, content |-> <<97>>])
       @@ (<<"s">> :> [mode |-> ModeBlk, content |-> <<>>])
       @@ (<<"d", "f">> :> [mode |-> ModeReg, content |-> <<>>])

VARIABLES
  ssh, sftp, scp,     \* SCPClientApp.ssh / .sftp / .scp: None or a connection
  nextConn,           \* SSHClient objects created so far
  opened,             \* open connections: connect() succeeded, close() never ran
  lost,               \* connections a handle still uses whose network has dropped
  remote_path,        \* SCPClientApp.remote_path
  listing,            \* remote_model._data: the rows shown in the remote tree
  selected,           \* the selected row of the remote tree, or NoSel
  text,               \* text_editor contents
  editor_visible,     \* text_editor.isVisible()
  fs,                 \* remote file system: path -> node
  running,            \* handlers in flight (asyncio.run has not returned)
  queue,              \* number of toolbar clicks waiting in the GUI event queue
  last,               \* the last completed command and what it reported
  session             \* the latest lifecycle event of the session

vars == <<ssh, sftp, scp, nextConn, opened, lost, remote_path, listing, selected,
          text, editor_visible, fs, running, queue, last, session>>

\* The node at a path; the starting directory always exists.
Node(p) ==
  IF p = <<>> THEN [mode |-> ModeDir, content |-> <<>>]
  ELSE IF p \in DOMAIN fs THEN fs[p] ELSE Absent

\* is_directory answering for whatever stat() finds.
is_directory_mode_any(mode) == mode # 0

\* stat(path).st_mode & 0o040000
is_directory_mode(mode) == (mode \div S_IFDIR) % 2 = 1

\* What the server takes for a directory (S_ISDIR).
IsDir(p) == Node(p).mode \div 4096 = 4
Exists(p) == Node(p).mode # 0
\* sftp.listdir(path) on a directory.
Entries(p) == {n \in Names : Exists(join(p, n))}

\* A call through a handle of connection c goes through.
Usable(c) == c \in opened /\ c \notin lost

\* "self.ssh is None or self.sftp is None" negated / "self.ssh and self.sftp".
HasConnection(s, f) == s # None /\ f # None

\* The handlers scheduled on a loop that is already running: the GUI thread
\* never waits for one.
GuiThreadFree_scheduled == TRUE

\* asyncio.run(...) returns only when the handler has finished: the GUI thread
\* takes the next event when no handler is in flight.
GuiThreadFree == running = <<>>

\* The earlier command a command follows, and what it reported: the mutating
\* command (upload, save, delete) that was running when a mutating command
\* was clicked; the upload a download follows; the open_file a save_file
\* follows, double-clicks in between or not.
NoBehind == [cmd |-> "none", path |-> <<>>, outcome |-> "none"]

\* data: the bytes a download wrote to the local file.
NoCmd == [cmd |-> "none", outcome |-> "none", path |-> <<>>, sess0 |-> "none",
          touched |-> FALSE, behind |-> NoBehind, data |-> <<>>]

Init ==
  /\ ssh = None /\ sftp = None /\ scp = None
  /\ nextConn = 0
  /\ opened = {} /\ lost = {}
  /\ remote_path = <<>>
  /\ listing = {}
  /\ selected = NoSel
  /\ text = <<>>
  /\ editor_visible = FALSE
  /\ fs = InitFs
  /\ running = <<>>
  /\ queue = 0
  /\ last = NoCmd
  /\ session = "none"

\* ------------------------------------------------------------ bookkeeping
IsReg(p) == Node(p).mode \div 4096 = 8
Parent(p) == SubSeq(p, 1, Len(p) - 1)
SetNode(p, node) ==
  IF p \in DOMAIN fs THEN [fs EXCEPT ![p] = node] ELSE fs @@ (p :> node)
RemoveAt(s, i) == SubSeq(s, 1, i - 1) \o SubSeq(s, i + 1, Len(s))

Mutating == {"upload", "save", "delete"}

\* A handler as it starts: what it was issued against.
NewJob(cmd, d) ==
  [cmd |-> cmd, stage |-> "begin", name |-> NoSel, path |-> <<>>,
   sess0 |-> session, touched |-> FALSE, listed |-> FALSE, data |-> <<>>,
   old |-> Absent,
   behind |-> IF \/ d /\ cmd \in Mutating /\ last.cmd \in Mutating
                 \/ /\ cmd = "download"
                    /\ last.cmd = "upload" /\ last.outcome = "ok"
                 \/ /\ cmd \in {"save", "navigate"}
                    /\ last.cmd = "open" /\ last.outcome = "ok"
              THEN [cmd |-> last.cmd, path |-> last.path,
                    outcome |-> last.outcome]
              ELSE IF cmd \in {"save", "navigate"} /\ last.cmd = "navigate"
              THEN last.behind
              ELSE NoBehind]

Rec(j, outcome) ==
  [cmd |-> j.cmd, outcome |-> outcome, path |-> j.path, sess0 |-> j.sess0,
   touched |-> j.touched, behind |-> j.behind,
   data |-> IF j.cmd = "download" THEN j.data ELSE <<>>]

\* The handler returns: "ok" (information box), "rejected" (the "No
\* Connection" warning), "failed" (critical box or the printed message),
\* "raised" (an exception leaves the handler), "noop" (nothing was done).
Report(j, outcome) == last' = Rec(j, outcome)

\* A handler that goes on to a worker thread: the previous report is gone.
Start(j) == running' = Append(running, j) /\ last' = NoCmd
Cont(i, j) == running' = [running EXCEPT ![i] = j] /\ UNCHANGED last
Done(i, j, outcome) == running' = RemoveAt(running, i) /\ Report(j, outcome)

\* The GUI thread takes a toolbar event: a fresh click (d = FALSE) when
\* nothing waits, or the oldest click of the event queue (d = TRUE).
Dispatch(d) ==
  /\ GuiThreadFree
  /\ IF d THEN queue > 0 /\ queue' = queue - 1
          ELSE queue = 0 /\ queue' = queue

\* The session event a failed transport call leaves behind.
AfterCall(c) == IF Usable(c) THEN session ELSE "transportFailed"

\* ------------------------------------------------------------ user input
\* A toolbar click while a handler runs waits in the event queue; which
\* action it was is read when the GUI thread takes it (Dispatch).
Click ==
  /\ ~GuiThreadFree
  /\ queue < MaxQueue
  /\ queue' = queue + 1
  /\ UNCHANGED <<ssh, sftp, scp, nextConn, opened, lost, remote_path,
                 listing, selected, text, editor_visible, fs, running, last, session>>

\* A click on a row of the remote tree.
Select(n) ==
  /\ GuiThreadFree /\ queue = 0
  /\ n \in listing /\ selected # n
  /\ selected' = n
  /\ UNCHANGED <<ssh, sftp, scp, nextConn, opened, lost, remote_path,
                 listing, text, editor_visible, fs, running, queue, last, session>>

\* Typing in the text editor, once open_file has made it visible.
Edit(t) ==
  /\ GuiThreadFree /\ queue = 0
  /\ editor_visible
  /\ text # t
  /\ text' = t
  /\ UNCHANGED <<ssh, sftp, scp, nextConn, opened, lost, remote_path,
                 listing, selected, editor_visible, fs, running, queue, last,
                 session>>

\* ----------------------------------------------------------- environment
\* The network of a connection some handle still uses drops.
ConnectionLost ==
  \E c \in ({sftp, scp} \cap opened) \ lost :
    /\ lost' = lost \cup {c}
    /\ UNCHANGED <<ssh, sftp, scp, nextConn, opened, remote_path, listing,
                   selected, text, editor_visible, fs, running, queue, last, session>>

\* ------------------------------------------------------------ connect_ssh
\* The three input dialogs, then the hand-over to the worker thread.
connect_ssh ==
  \E d \in BOOLEAN, creds \in {"empty", "given"} :
    /\ Dispatch(d)
    /\ nextConn < MaxConn
    /\ IF creds = "given"
       THEN Start([NewJob("connect", d) EXCEPT !.stage = "connect"])
       ELSE Report(NewJob("connect", d), "noop") /\ UNCHANGED running
    /\ UNCHANGED <<ssh, sftp, scp, nextConn, opened, lost, remote_path,
                   listing, selected, text, editor_visible, fs, session>>

\* _connect_ssh_thread: a new SSHClient is stored in self.ssh, then connect(),
\* open_sftp() and SCPClient(); r is how far the network lets it get.
connect_ssh_thread ==
  \E i \in DOMAIN running, r \in {"connect_fails", "open_sftp_fails", "ok"} :
    LET j == running[i]
        c == nextConn + 1
    IN /\ j.stage = "connect"
       /\ nextConn' = c
       /\ ssh' = c
       /\ opened' = IF r = "connect_fails" THEN opened ELSE opened \cup {c}
       /\ sftp' = IF r = "ok" THEN c ELSE sftp
       /\ scp' = IF r = "ok" THEN c ELSE scp
       /\ lost' = IF r = "ok" THEN {} ELSE lost
       /\ IF r = "ok"
          THEN /\ session' = "connected"
               /\ Cont(i, [j EXCEPT !.stage = "list", !.touched = TRUE])
          ELSE /\ session' = "connectFailed"
               /\ Done(i, [j EXCEPT !.touched = TRUE], "failed")
       /\ UNCHANGED <<remote_path, listing, selected, text, editor_visible, fs, queue>>

\* -------------------------------------------------- load_remote_directory
\* What the command that called load_remote_directory reports once it is
\* back: connect_ssh and delete_file report success whatever it did.
ListOutcome(cmd, res) == IF cmd \in {"connect", "delete"} THEN "ok" ELSE res

\* Toolbar "Refresh Remote".
refresh ==
  \E d \in BOOLEAN :
    /\ Dispatch(d)
    /\ Start([NewJob("refresh", d) EXCEPT !.stage = "list"])
    /\ UNCHANGED <<ssh, sftp, scp, nextConn, opened, lost, remote_path,
                   listing, selected, text, editor_visible, fs, session>>

\* load_remote_directory, with populate_remote_file_tree on success.  A
\* connection that no handle refers to any more (the one a successful connect
\* has just replaced) is out of the program's reach: it is open in the state
\* the connect leaves and is no longer kept track of from here on.
load_remote_directory ==
  \E i \in DOMAIN running :
    LET j == running[i]
    IN /\ j.stage = "list"
       /\ IF ~HasConnection(ssh, sftp)
          THEN /\ Done(i, j, ListOutcome(j.cmd, "rejected"))
               /\ UNCHANGED <<listing, selected, session>>
          ELSE IF Usable(sftp) /\ IsDir(remote_path)
          THEN /\ listing' = Entries(remote_path)
               /\ selected' = NoSel
               /\ Done(i, [j EXCEPT !.touched = TRUE, !.listed = TRUE],
                       ListOutcome(j.cmd, "ok"))
               /\ UNCHANGED session
          ELSE /\ session' = AfterCall(sftp)
               /\ Done(i, [j EXCEPT !.touched = TRUE],
                       ListOutcome(j.cmd, "failed"))
               /\ UNCHANGED <<listing, selected>>
       /\ opened' = opened \cap {ssh, sftp, scp}
       /\ UNCHANGED <<ssh, sftp, scp, nextConn, lost, remote_path,
                      text, editor_visible, fs, queue>>

\* ----------------------------------------------- remote_directory_navigate
\* A double-click on row n of the remote tree: is_directory runs on the GUI
\* thread, then the path is set and the directory reloaded.  stat() on None
\* raises AttributeError, which is_directory does not catch; on a connection
\* that is gone it raises IOError (caught: "not a directory") or another
\* exception (not caught).
remote_directory_navigate(n) ==
  /\ GuiThreadFree /\ queue = 0
  /\ n \in listing
  /\ LET j == [NewJob("navigate", FALSE) EXCEPT !.name = n,
                                                !.path = join(remote_path, n)]
         t == [j EXCEPT !.touched = TRUE]
     IN IF sftp = None
        THEN /\ Report(j, "raised")
             /\ UNCHANGED <<remote_path, running, session>>
        ELSE IF ~Usable(sftp)
        THEN /\ \E exc \in {"IOError", "other"} :
                  Report(t, IF exc = "IOError" THEN "failed" ELSE "raised")
             /\ session' = "transportFailed"
             /\ UNCHANGED <<remote_path, running>>
        ELSE IF Exists(j.path) /\ is_directory_mode(Node(j.path).mode)
        THEN /\ remote_path' = j.path
             /\ Start([t EXCEPT !.stage = "list"])
             /\ UNCHANGED session
        ELSE /\ Report(t, "failed")
             /\ UNCHANGED <<remote_path, running, session>>
  /\ selected' = n
  /\ UNCHANGED <<ssh, sftp, scp, nextConn, opened, lost, listing, text, editor_visible, fs,
                 queue>>

\* --------------------------------------------------------- disconnect_ssh
Handles == [ssh |-> ssh, sftp |-> sftp, scp |-> scp, opened |-> opened]

\* disconnect_ssh without its "if self.ssh": close() on None raises inside the
\* try, and the except branch reports "Disconnection Failed".
disconnect_ssh_unguarded(h) ==
  IF h.ssh # None
  THEN [ssh |-> None, sftp |-> None, scp |-> h.scp,
        opened |-> h.opened \ {h.ssh}, report |-> "ok"]
  ELSE [ssh |-> h.ssh, sftp |-> h.sftp, scp |-> h.scp, opened |-> h.opened,
        report |-> "failed"]

\* disconnect_ssh on the handles h: the handles afterwards and the report.
disconnect_ssh(h) ==
  IF h.ssh # None
  THEN [ssh |-> None, sftp |-> None, scp |-> h.scp,
        opened |-> h.opened \ {h.ssh}, report |-> "ok"]
  ELSE [ssh |-> h.ssh, sftp |-> h.sftp, scp |-> h.scp, opened |-> h.opened,
        report |-> "rejected"]

\* Toolbar "Disconnect".
disconnect ==
  \E d \in BOOLEAN :
    LET r == disconnect_ssh(Handles)
    IN /\ Dispatch(d)
       /\ ssh' = r.ssh /\ sftp' = r.sftp /\ scp' = r.scp /\ opened' = r.opened
       /\ lost' = lost \cap r.opened
       /\ session' = IF r.report = "ok" THEN "none" ELSE session
       /\ Report(NewJob("disconnect", d), r.report)
       /\ UNCHANGED <<nextConn, remote_path, listing, selected, text, editor_visible, fs, running>>

\* -------------------------------------------------------------- transfers
\* A transfer that loses its last byte.
Transferred_short(bytes, k) == SubSeq(bytes, 1, k - 1)

\* What has reached the other side when k bytes of a file went through.
Transferred(bytes, k) == SubSeq(bytes, 1, k)

\* ------------------------------------------------------------ upload_file
upload_file ==
  \E d \in BOOLEAN, local_sel \in LocalNames \cup {NoSel} :
    LET j == NewJob("upload", d)
    IN /\ Dispatch(d)
       /\ IF ~HasConnection(ssh, sftp)
          THEN Report(j, "rejected") /\ UNCHANGED running
          ELSE IF local_sel = NoSel
          THEN Report(j, "raised") /\ UNCHANGED running
          ELSE Start([j EXCEPT !.stage = "put", !.name = local_sel,
                               !.path = join(remote_path, local_sel),
                               !.data = LocalFile(local_sel).content])
       /\ UNCHANGED <<ssh, sftp, scp, nextConn, opened, lost, remote_path,
                      listing, selected, text, editor_visible, fs, session>>

\* scp.put(local_file_path, self.remote_path): k bytes reach the remote file
\* before the connection drops (k = all of them: the transfer completes).
scp_put ==
  \E i \in DOMAIN running :
    LET j == running[i]
        t == [j EXCEPT !.touched = TRUE]
        can == Usable(scp) /\ IsDir(Parent(j.path)) /\ (IsReg(j.path) \/ ~Exists(j.path))
    IN /\ j.stage = "put"
       /\ \E k \in 0..Len(j.data) :
            IF can /\ k = Len(j.data)
            THEN /\ fs' = SetNode(j.path, [mode |-> ModeReg,
                                           content |-> Transferred(j.data, k)])
                 /\ Done(i, t, "ok")
                 /\ UNCHANGED <<lost, session>>
            ELSE IF can
            THEN /\ fs' = SetNode(j.path, [mode |-> ModeReg,
                                           content |-> Transferred(j.data, k)])
                 /\ lost' = lost \cup {scp}
                 /\ session' = "transportFailed"
                 /\ Done(i, t, "failed")
            ELSE /\ k = 0
                 /\ session' = AfterCall(scp)
                 /\ Done(i, t, "failed")
                 /\ UNCHANGED <<fs, lost>>
       /\ UNCHANGED <<ssh, sftp, scp, nextConn, opened, remote_path, listing,
                      selected, text, editor_visible, queue>>

\* ---------------------------------- download / open / save / delete: start
\* The common start of the handlers that act on the selected remote row: the
\* connection check, selectedIndexes()[0] (IndexError with no selection),
\* the path of the row.
OnSelected(cmd, d, stage) ==
  LET j == NewJob(cmd, d)
  IN /\ Dispatch(d)
     /\ IF ~HasConnection(ssh, sftp)
        THEN Report(j, "rejected") /\ UNCHANGED running
        ELSE IF selected = NoSel
        THEN Report(j, "raised") /\ UNCHANGED running
        ELSE IF stage = "cancel"
        THEN Report([j EXCEPT !.name = selected,
                              !.path = join(remote_path, selected)], "noop")
             /\ UNCHANGED running
        ELSE Start([j EXCEPT !.stage = stage, !.name = selected,
                             !.path = join(remote_path, selected),
                             !.data = IF cmd = "save" THEN encode(text) ELSE <<>>,
                             !.old = IF cmd = "save"
                                     THEN Node(join(remote_path, selected))
                                     ELSE Absent])
     /\ UNCHANGED <<ssh, sftp, scp, nextConn, opened, lost, remote_path,
                    listing, selected, text, editor_visible, fs, session>>

\* ---------------------------------------------------------- download_file
\* The directory dialog may be cancelled.
download_file ==
  \E d \in BOOLEAN, dir \in {"get", "cancel"} : OnSelected("download", d, dir)

\* scp.get(remote_file_path, local_download_dir): the bytes written to the
\* local file are kept in the job (k of them before the connection drops).
scp_get ==
  \E i \in DOMAIN running :
    LET j == running[i]
        t == [j EXCEPT !.touched = TRUE]
        can == Usable(scp) /\ IsReg(j.path)
        data == Node(j.path).content
    IN /\ j.stage = "get"
       /\ \E k \in 0..Len(data) :
            IF can /\ k = Len(data)
            THEN /\ Done(i, [t EXCEPT !.data = Transferred(data, k)], "ok")
                 /\ UNCHANGED <<lost, session>>
            ELSE IF can
            THEN /\ lost' = lost \cup {scp}
                 /\ session' = "transportFailed"
                 /\ Done(i, [t EXCEPT !.data = Transferred(data, k)], "failed")
            ELSE /\ k = 0
                 /\ session' = AfterCall(scp)
                 /\ Done(i, t, "failed")
                 /\ UNCHANGED lost
       /\ UNCHANGED <<ssh, sftp, scp, nextConn, opened, remote_path, listing,
                      selected, text, editor_visible, fs, queue>>

\* -------------------------------------------------------------- open_file
open_file == \E d \in BOOLEAN : OnSelected("open", d, "read")

\* sftp.file(path, 'r'), read().decode(), setPlainText, setVisible(True).
sftp_read ==
  \E i \in DOMAIN running :
    LET j == running[i]
        t == [j EXCEPT !.touched = TRUE]
        got == decode(Node(j.path).content)
    IN /\ j.stage = "read"
       /\ IF Usable(sftp) /\ IsReg(j.path) /\ got # <<-1>>
          THEN /\ text' = got /\ editor_visible' = TRUE
               /\ Done(i, t, "ok") /\ UNCHANGED session
          ELSE /\ session' = AfterCall(sftp)
               /\ Done(i, t, "failed")
               /\ UNCHANGED <<text, editor_visible>>
       /\ UNCHANGED <<ssh, sftp, scp, nextConn, opened, lost, remote_path,
                      listing, selected, fs, queue>>

\* -------------------------------------------------------------- save_file
save_file == \E d \in BOOLEAN : OnSelected("save", d, "openw")

\* sftp.file(path, 'w'): the remote file is created or truncated.
sftp_open_w ==
  \E i \in DOMAIN running :
    LET j == running[i]
        t == [j EXCEPT !.touched = TRUE]
    IN /\ j.stage = "openw"
       /\ IF Usable(sftp) /\ IsDir(Parent(j.path))
             /\ (IsReg(j.path) \/ ~Exists(j.path))
          THEN /\ fs' = SetNode(j.path, [mode |-> ModeReg, content |-> <<>>])
               /\ Cont(i, [t EXCEPT !.stage = "write"])
               /\ UNCHANGED session
          ELSE /\ session' = AfterCall(sftp)
               /\ Done(i, t, "failed")
               /\ UNCHANGED fs
       /\ UNCHANGED <<ssh, sftp, scp, nextConn, opened, lost, remote_path,
                      listing, selected, text, editor_visible, queue>>

\* remote_file.write(updated_content.encode()) and the close that flushes it:
\* k bytes reach the file before the connection drops (k = all: it completes).
sftp_write ==
  \E i \in DOMAIN running :
    LET j == running[i]
    IN /\ j.stage = "write"
       /\ \E k \in 0..Len(j.data) :
            IF Usable(sftp) /\ k = Len(j.data)
            THEN /\ fs' = SetNode(j.path, [mode |-> ModeReg,
                                           content |-> Transferred(j.data, k)])
                 /\ Done(i, j, "ok")
                 /\ UNCHANGED <<lost, session>>
            ELSE IF Usable(sftp)
            THEN /\ fs' = SetNode(j.path, [mode |-> ModeReg,
                                           content |-> Transferred(j.data, k)])
                 /\ lost' = lost \cup {sftp}
                 /\ session' = "transportFailed"
                 /\ Done(i, j, "failed")
            ELSE /\ k = 0
                 /\ session' = "transportFailed"
                 /\ Done(i, j, "failed")
                 /\ UNCHANGED <<fs, lost>>
       /\ UNCHANGED <<ssh, sftp, scp, nextConn, opened, remote_path, listing,
                      selected, text, editor_visible, queue>>

\* ------------------------------------------------------------ delete_file
delete_file == \E d \in BOOLEAN : OnSelected("delete", d, "remove")

\* delete_file going on to the refresh and the success box whatever
\* sftp.remove did.
AfterRemove_swallowed(removed) == "list"

\* What delete_file does after sftp.remove: on success it goes on to
\* load_remote_directory, on an exception it reports the error.
AfterRemove(removed) == IF removed THEN "list" ELSE "failed"

\* sftp.remove(remote_file_path).
sftp_remove ==
  \E i \in DOMAIN running :
    LET j == running[i]
        t == [j EXCEPT !.touched = TRUE]
        removed == Usable(sftp) /\ Exists(j.path) /\ ~IsDir(j.path)
    IN /\ j.stage = "remove"
       /\ fs' = IF removed THEN SetNode(j.path, Absent) ELSE fs
       /\ IF AfterRemove(removed) = "list"
          THEN Cont(i, [t EXCEPT !.stage = "list"]) /\ UNCHANGED session
          ELSE session' = AfterCall(sftp) /\ Done(i, t, "failed")
       /\ UNCHANGED <<ssh, sftp, scp, nextConn, opened, lost, remote_path,
                      listing, selected, text, editor_visible, queue>>

\* ---------------------------------------------------------- specification
Next ==
  \/ Click
  \/ \E n \in Names : Select(n)
  \/ \E t \in Texts : Edit(t)
  \/ ConnectionLost
  \/ connect_ssh
  \/ connect_ssh_thread
  \/ refresh
  \/ load_remote_directory
  \/ \E n \in Names : remote_directory_navigate(n)
  \/ disconnect
  \/ upload_file
  \/ scp_put
  \/ download_file
  \/ scp_get
  \/ open_file
  \/ sftp_read
  \/ save_file
  \/ sftp_open_w
  \/ sftp_write
  \/ delete_file
  \/ sftp_remove

Spec == Init /\ [][Next]_vars

\* ------------------------------------------------------------------ claims
Commands == {"refresh", "upload", "download", "open", "save", "delete"}
NodeIn(f, p) ==
  IF p = <<>> THEN [mode |-> ModeDir, content |-> <<>>]
  ELSE IF p \in DOMAIN f THEN f[p] ELSE Absent
HandlesOf(r) == [ssh |-> r.ssh, sftp |-> r.sftp, scp |-> r.scp, opened |-> r.opened]

\* C1: at most one SSH connection is open (connected and not closed) at any
\* instant.
C1_AtMostOneLive == Cardinality(opened) <= 1

\* C2: a command issued when the latest connect attempt failed is rejected as
\* not connected: it makes no call on a transport handle and reports neither
\* a result nor an error of one.
C2_FailedConnectRejects ==
  (last.cmd \in Commands /\ last.sess0 = "connectFailed")
    => (last.outcome \notin {"ok", "failed"} /\ ~last.touched)

C4_ValidatedFirst ==
  (last.cmd \in Commands \cup {"navigate"} /\ last.sess0 = "none")
    => (last.outcome = "rejected" /\ ~last.touched)

\* C5: a double-click on an entry whose path is a regular file or does not
\* exist leaves remote_path and the rows shown as they were and starts no
\* listing.
C5_NavigateNonDirFails ==
  [][\A n \in Names :
       (remote_directory_navigate(n)
          /\ (IsReg(join(remote_path, n)) \/ ~Exists(join(remote_path, n))))
       => (remote_path' = remote_path /\ listing' = listing
           /\ running' = running)]_vars

\* C5 witness: a double-click on a regular file, over a working connection,
\* was answered "not a directory".
C5_Witness ==
  /\ last.cmd = "navigate" /\ last.outcome = "failed"
  /\ IsReg(last.path) /\ Usable(sftp)
  /\ Parent(last.path) = remote_path

\* C6: when delete_file has reported success, the rows shown do not include
\* the deleted entry.
C6_DeletedNotListed ==
  (last.cmd = "delete" /\ last.outcome = "ok"
     /\ Parent(last.path) = remote_path)
    => last.path[Len(last.path)] \notin listing

\* Two Delete requests on one path, the second clicked while the first was
\* running.
TwoDeletes ==
  /\ last.cmd = "delete" /\ last.behind.cmd = "delete"
  /\ last.behind.path = last.path

OneWriterPerPath ==
  \A i, k \in DOMAIN running :
    (i # k /\ running[i].cmd \in Mutating /\ running[k].cmd \in Mutating)
      => running[i].path # running[k].path

\* A mutating command that was clicked while another ran on the same path.
SecondOnSamePath ==
  /\ last.cmd \in Mutating /\ last.behind.cmd \in Mutating
  /\ last.behind.path = last.path

C9_SaveAtomic ==
  [][\A i \in DOMAIN running :
       (running[i].cmd = "save" /\ running' = RemoveAt(running, i))
       => IF last'.outcome = "ok"
          THEN NodeIn(fs', running[i].path).content = running[i].data
          ELSE NodeIn(fs', running[i].path) = running[i].old]_vars

\* C10: a command issued after an operation failed on a dead connection,
\* and before a connect succeeded, is rejected: it makes no call on a
\* transport handle and reports neither a result nor an error of one.
C10_FailedSessionRejects ==
  (last.cmd \in Commands \cup {"navigate"} /\ last.sess0 = "transportFailed")
    => (last.outcome \notin {"ok", "failed"} /\ ~last.touched)

\* C11: when an upload into the current remote directory has reported
\* success, the rows shown contain the uploaded file's name.
C11_UploadListed ==
  (last.cmd = "upload" /\ last.outcome = "ok"
     /\ Parent(last.path) = remote_path)
    => last.path[Len(last.path)] \in listing

\* C12: once Disconnect has closed the session, no rows of that session are
\* shown any more.
C12_ListingScoped ==
  (last.cmd = "disconnect" /\ last.outcome = "ok") => listing = {}

\* C13: while an upload or a download is in flight, Refresh, Disconnect and
\* a double-click on a row shown can be taken: the GUI thread answers them
\* before the transfer has finished.
TransferInFlight ==
  \E i \in DOMAIN running : running[i].cmd \in {"upload", "download"}
C13_TransferDoesNotBlock ==
  TransferInFlight
    => /\ ENABLED refresh
       /\ ENABLED disconnect
       /\ \A n \in listing : ENABLED remote_directory_navigate(n)

\* C15: a double-click whose listing step failed leaves remote_path at the
\* value it had before the double-click, so that the rows shown are never
\* those of a different path than remote_path.
C15_FailedNavigateKeepsPath ==
  (running = <<>> /\ last.cmd = "navigate" /\ last.outcome = "failed")
    => remote_path = Parent(last.path)

\* C16: between commands the three handles are all unset, or all three are
\* the same connection and that connection is still open.
C16_HandlesConsistent ==
  running = <<>>
    => \/ ssh = None /\ sftp = None /\ scp = None
       \/ ssh # None /\ sftp = ssh /\ scp = ssh /\ ssh \in opened

\* C18: when Connect has reported success, remote_path is the starting
\* directory ".".
C18_SessionStartsAtDot ==
  (last.cmd = "connect" /\ last.outcome = "ok") => remote_path = <<>>

\* C19: remote_path changes only in a double-click on a row that is a
\* directory, and then to the path of that row; no other step changes it.
C19_PathFrame ==
  [][remote_path' # remote_path
       => \E n \in listing :
            /\ remote_directory_navigate(n)
            /\ IsDir(join(remote_path, n))
            /\ remote_path' = join(remote_path, n)]_vars

\* C14: a download that follows a successful upload to the same remote
\* path, with no command in between, and reports success has written to the
\* local file exactly the bytes of the uploaded local file.
UploadThenDownload ==
  /\ last.cmd = "download" /\ last.outcome = "ok"
  /\ last.behind.cmd = "upload" /\ last.behind.outcome = "ok"
  /\ last.behind.path = last.path
C17_SaveWritesOpened ==
  [][\A i \in DOMAIN running :
       (running[i].cmd = "save" /\ running[i].behind.cmd = "open")
       => \A p \in DOMAIN fs' :
            NodeIn(fs', p) # NodeIn(fs, p) => p = running[i].behind.path]_vars

====
